---- MODULE Spec2Model ----
(***************************************************************************)
(* The shadow pallet of shadowchain: a per-account bounded ledger of       *)
(* content references and a per-account consent record.  The repository    *)
(* holds the pallet twice, parachain/pallets/shadow and                    *)
(* substrate-node/pallets/shadow; both are modelled here, behind the       *)
(* variable pallet, over the same storage variables.                       *)
(***************************************************************************)
EXTENDS Integers, Sequences, FiniteSets, TLC

(* ------------------------------ bounds --------------------------------- *)

\* Config::MaxItemsPerAccount, MaxCidLength, ... are runtime parameters
\* (Get<u32>); the model runs them at small values.
MaxItemsPerAccount == 2
MaxCidLength == 2
MaxKeyLength == 1
MaxMetadataLength == 1
MaxMessageHashLength == 1
\* The largest value of BlockNumberFor<T> / T::Moment: the stand-in for
\* u32::MAX / u64::MAX.  Arithmetic on logical time is done at this width.
MaxBlockNumber == 2
\* The largest frame_system account nonce the environment reaches.
MaxNonce == 1
\* The number of state-changing steps (successful dispatches, block and nonce
\* advances) a run explores; failed dispatches are not counted.
MaxSteps == 4
\* The number of state-changing steps of the runs from whose states pairs of commands
\* are applied in both orders.
MaxPairSteps == 3

Accounts == {1, 2}

(* ------------------------------ values --------------------------------- *)

None == <<>>
Some(x) == <<x>>
unwrap(o) == o[1]

\* n bytes 'Q' (tests: vec![b'Q'; 101]).
Bytes(n) == [i \in 1..n |-> 81]

\* What a caller may pass: each field at its bound, below it, one byte over.
CidInputs == {Bytes(MaxCidLength), Bytes(MaxCidLength - 1), Bytes(MaxCidLength + 1)}
KeyInputs == {Bytes(MaxKeyLength), Bytes(MaxKeyLength + 1)}
MetadataInputs == {Bytes(MaxMetadataLength), Bytes(MaxMetadataLength + 1)}
MessageHashInputs == {Bytes(MaxMessageHashLength), Bytes(MaxMessageHashLength + 1)}
\* parachain: source is a u8 (0 = GitHub, 1 = Twitter; the tests pass 5).
SourceInputs == {0, 1, 5}
\* substrate-node: source is the enum ContentSource, nothing else decodes.
ContentSource == {"GitHub", "Twitter"}
\* substrate-node: message_hash is a T::Hash.
HashInputs == {Bytes(MaxMessageHashLength)}
DurationInputs == {None} \cup {Some(d) : d \in 0..MaxBlockNumber}

\* Account 1 is the caller under study: it calls with every input above.  Account 2
\* is the second party: it calls with one valid input of each kind.
CidOf(who) == IF who = 1 THEN CidInputs ELSE {Bytes(MaxCidLength)}
KeyOf(who) == IF who = 1 THEN KeyInputs ELSE {Bytes(MaxKeyLength)}
MetadataOf(who) == IF who = 1 THEN MetadataInputs ELSE {Bytes(MaxMetadataLength)}
SourceOf(who) == IF who = 1 THEN SourceInputs ELSE {0}
ContentSourceOf(who) == IF who = 1 THEN ContentSource ELSE {"GitHub"}
MessageHashOf(who) == IF who = 1 THEN MessageHashInputs ELSE {Bytes(MaxMessageHashLength)}
DurationOf(who) == IF who = 1 THEN DurationInputs ELSE {None}

VARIABLES
    pallet,           \* which of the two pallets runs: "parachain" | "substrate-node"
    now,              \* frame_system block_number (parachain), T::Time::now() (substrate-node)
    account_nonce,    \* frame_system account nonce, per account (parachain reads it)
    ShadowItems,      \* account -> sequence of ShadowItem
    ConsentRecords,   \* account -> None | Some(ConsentRecord)
    ItemCount,        \* account -> u32 (substrate-node only)
    call,             \* the dispatchable (or environment step) that ran last
    caller,           \* its signed origin
    result,           \* its DispatchResult: "Ok" or the error
    events,           \* the events it deposited
    grant_called,     \* history: the accounts that ever dispatched grant_consent
    last_grant,       \* history: account -> None | Some([at, duration]) of the live grant
    nsteps            \* history: the number of state-changing steps so far

vars == <<pallet, now, account_nonce, ShadowItems, ConsentRecords,
          ItemCount, call, caller, result, events, grant_called, last_grant, nsteps>>


(* ------------------------------ helpers -------------------------------- *)

\* A derivation that leaves the counter out.
hash_of_without_nonce(who, nonce, cid) == <<who, 0, cid>>

\* T::Hashing::hash_of(&(who, nonce, cid)): an ideal (collision-free) hash,
\* the encoded tuple itself.
hash_of(who, nonce, cid) == <<who, nonce, cid>>

\* Hashing::hash(b"fake"): an id no submission derives.
fake_id == <<0, 0, <<>>>>

\* A conversion that refuses a vector of exactly the bound.
try_from_ok_strict(v, bound) == Len(v) < bound

\* BoundedVec::try_from(v) succeeds iff v fits the bound.
try_from_ok(v, bound) == Len(v) <= bound

\* A push that lets one item past the bound.
try_push_off_by_one(items, item) ==
    IF Len(items) <= MaxItemsPerAccount THEN Some(Append(items, item)) ELSE None

\* A push that refuses when one slot is still free.
try_push_early(items, item) ==
    IF Len(items) + 1 < MaxItemsPerAccount THEN Some(Append(items, item)) ELSE None

\* A push that puts the item in front.
try_push_front(items, item) ==
    IF Len(items) < MaxItemsPerAccount THEN Some(<<item>> \o items) ELSE None

\* BoundedVec::try_push: Some(items ++ item), None when the vector is full.
try_push(items, item) ==
    IF Len(items) < MaxItemsPerAccount THEN Some(Append(items, item)) ELSE None

\* frame_system::Pallet::<T>::block_number()
block_number == now

\* T::Time::now()
Time_now == now

\* current_block + d on BlockNumberFor<T>, in a build without overflow checks.
wrapping_add(a, b) == (a + b) % (MaxBlockNumber + 1)

\* now.saturating_add(duration) on T::Moment.
saturating_add(a, b) == IF a + b > MaxBlockNumber THEN MaxBlockNumber ELSE a + b

\* The storage of the pallet as one value, so that a dispatchable is a function
\* from storage to storage.
Storage == [ShadowItems |-> ShadowItems, ConsentRecords |-> ConsentRecords,
            ItemCount |-> ItemCount]

Outcome(st, res, evs) == [st |-> st, result |-> res, events |-> evs]

(* ------------------------- parachain pallet ---------------------------- *)

\* A consent check that lets a record without expiry lapse once time has moved on.
ensure_valid_consent_lapsing(st, account) ==
    IF st.ConsentRecords[account] = None THEN "NoConsent"
    ELSE LET consent == unwrap(st.ConsentRecords[account])
             limit == IF consent.expires_at = None THEN consent.granted_at
                      ELSE unwrap(consent.expires_at)
         IN  IF ~(block_number <= limit) THEN "ConsentExpired" ELSE "Ok"

\* ensure_valid_consent: "Ok", or the error it returns.
ensure_valid_consent(st, account) ==
    IF st.ConsentRecords[account] = None THEN "NoConsent"
    ELSE LET consent == unwrap(st.ConsentRecords[account]) IN
         IF consent.expires_at # None /\ ~(block_number <= unwrap(consent.expires_at))
         THEN "ConsentExpired"
         ELSE "Ok"

\* Checks that let every source byte through.
para_validate_inputs_any_source(cid, encrypted_key, source, metadata) ==
    IF ~(Len(cid) <= MaxCidLength) THEN "CidTooLong"
    ELSE IF ~(Len(encrypted_key) <= MaxKeyLength) THEN "KeyTooLong"
    ELSE IF ~(Len(metadata) <= MaxMetadataLength) THEN "MetadataTooLong"
    ELSE "Ok"

\* The checks of submit_shadow_item that come after the consent check, in order.
para_validate_inputs(cid, encrypted_key, source, metadata) ==
    IF ~(Len(cid) <= MaxCidLength) THEN "CidTooLong"
    ELSE IF ~(Len(encrypted_key) <= MaxKeyLength) THEN "KeyTooLong"
    ELSE IF ~(Len(metadata) <= MaxMetadataLength) THEN "MetadataTooLong"
    ELSE IF ~(source <= 1) THEN "InvalidSource"
    ELSE "Ok"

\* The conversions to BoundedCid, BoundedKey, BoundedMetadata that follow the checks
\* (and refuse nothing the checks let through).
para_convert_inputs(cid, encrypted_key, metadata) ==
    IF ~try_from_ok(cid, MaxCidLength) THEN "CidTooLong"
    ELSE IF ~try_from_ok(encrypted_key, MaxKeyLength) THEN "KeyTooLong"
    ELSE IF ~try_from_ok(metadata, MaxMetadataLength) THEN "MetadataTooLong"
    ELSE "Ok"

\* item_id.as_ref().try_into() to [u8; 32] cannot fail for a 32-byte hash, and
\* delete_shadow_item decodes the same bytes back: the stored id is the hash.
para_submit_shadow_item(st, who, cid, encrypted_key, source, metadata) ==
    LET consent == ensure_valid_consent(st, who)
        valid == para_validate_inputs(cid, encrypted_key, source, metadata)
        converted == para_convert_inputs(cid, encrypted_key, metadata)
        nonce == account_nonce[who]
        item_id == hash_of(who, nonce, cid)
        item == [id |-> item_id, cid |-> cid, encrypted_key |-> encrypted_key,
                 timestamp |-> block_number, source |-> source, metadata |-> metadata]
        pushed == try_push(st.ShadowItems[who], item)
    IN  IF consent # "Ok" THEN Outcome(st, consent, <<>>)
        ELSE IF valid # "Ok" THEN Outcome(st, valid, <<>>)
        ELSE IF converted # "Ok" THEN Outcome(st, converted, <<>>)
        ELSE IF pushed = None THEN Outcome(st, "TooManyItems", <<>>)
        ELSE Outcome([st EXCEPT !.ShadowItems[who] = unwrap(pushed)], "Ok",
                     <<[event |-> "ShadowItemStored", who |-> who, item_id |-> item_id,
                        cid |-> cid]>>)

\* items.retain(|item| stored_id != item_id)
para_retain(items, item_id) == SelectSeq(items, LAMBDA item : item.id # item_id)

\* A delete behind the consent check.
para_delete_shadow_item_consenting(st, who, item_id) ==
    LET consent == ensure_valid_consent(st, who)
    IN  IF consent # "Ok" THEN Outcome(st, consent, <<>>)
        ELSE Outcome([st EXCEPT !.ShadowItems[who] = para_retain(@, item_id)], "Ok",
                     <<[event |-> "ShadowItemDeleted", who |-> who, item_id |-> item_id]>>)

\* A delete that takes the caller's consent record with the entry.
para_delete_shadow_item_revoking(st, who, item_id) ==
    Outcome([st EXCEPT !.ShadowItems[who] = para_retain(@, item_id),
                       !.ConsentRecords[who] = None], "Ok",
            <<[event |-> "ShadowItemDeleted", who |-> who, item_id |-> item_id]>>)

para_delete_shadow_item(st, who, item_id) ==
    Outcome([st EXCEPT !.ShadowItems[who] = para_retain(@, item_id)], "Ok",
            <<[event |-> "ShadowItemDeleted", who |-> who, item_id |-> item_id]>>)

\* duration is Some(d) with current_block + d past the largest block number.
para_overflows(duration) ==
    duration # None /\ block_number + unwrap(duration) > MaxBlockNumber

para_grant_consent(st, who, message_hash, duration, overflow_checks) ==
    LET current_block == block_number
        expires_at == IF duration = None THEN None
                      ELSE Some(wrapping_add(current_block, unwrap(duration)))
    IN  IF para_overflows(duration) /\ overflow_checks THEN Outcome(st, "panic", <<>>)
        ELSE IF ~try_from_ok(message_hash, MaxMessageHashLength)
        THEN Outcome(st, "Message hash too long", <<>>)
        ELSE Outcome([st EXCEPT !.ConsentRecords[who] =
                          Some([granted_at |-> current_block, expires_at |-> expires_at,
                                message_hash |-> message_hash])],
                     "Ok",
                     <<[event |-> "ConsentGranted", who |-> who,
                        message_hash |-> message_hash]>>)

\* A revoke that takes the caller's items with the record.
para_revoke_consent_purging(st, who) ==
    Outcome([st EXCEPT !.ConsentRecords[who] = None, !.ShadowItems[who] = <<>>], "Ok",
            <<[event |-> "ConsentRevoked", who |-> who]>>)

para_revoke_consent(st, who) ==
    Outcome([st EXCEPT !.ConsentRecords[who] = None], "Ok",
            <<[event |-> "ConsentRevoked", who |-> who]>>)

(* ----------------------- substrate-node pallet ------------------------- *)

\* The bounded conversions of submit_shadow_item, in order.
node_validate_inputs(cid, encrypted_key, metadata) ==
    IF ~try_from_ok(cid, MaxCidLength) THEN "CidTooLong"
    ELSE IF ~try_from_ok(encrypted_key, MaxKeyLength) THEN "KeyTooLong"
    ELSE IF ~try_from_ok(metadata, MaxMetadataLength) THEN "MetadataTooLong"
    ELSE "Ok"

\* A counter that moves two at a time.
node_increment_by_two(count) == count + 2

\* count.saturating_add(1) on u32; the ledger bound keeps it far from u32::MAX.
node_increment(count) == count + 1

\* A submit that derives the id from one counter shared by all accounts.
node_submit_shadow_item_shared_count(st, who, cid, encrypted_key, source, metadata) ==
    LET valid == node_validate_inputs(cid, encrypted_key, metadata)
        nonce == st.ItemCount[1] + st.ItemCount[2]
        id == hash_of(who, nonce, cid)
        item == [id |-> id, cid |-> cid, encrypted_key |-> encrypted_key,
                 timestamp |-> Time_now, source |-> source, metadata |-> metadata,
                 deleted |-> FALSE]
        pushed == try_push(st.ShadowItems[who], item)
    IN  IF valid # "Ok" THEN Outcome(st, valid, <<>>)
        ELSE IF pushed = None THEN Outcome(st, "TooManyItems", <<>>)
        ELSE Outcome([st EXCEPT !.ShadowItems[who] = unwrap(pushed),
                                !.ItemCount[who] = node_increment(@)],
                     "Ok",
                     <<[event |-> "ShadowItemStored", account |-> who, id |-> id,
                        cid |-> cid, source |-> source]>>)

node_submit_shadow_item(st, who, cid, encrypted_key, source, metadata) ==
    LET valid == node_validate_inputs(cid, encrypted_key, metadata)
        nonce == st.ItemCount[who]
        id == hash_of(who, nonce, cid)
        item == [id |-> id, cid |-> cid, encrypted_key |-> encrypted_key,
                 timestamp |-> Time_now, source |-> source, metadata |-> metadata,
                 deleted |-> FALSE]
        pushed == try_push(st.ShadowItems[who], item)
    IN  IF valid # "Ok" THEN Outcome(st, valid, <<>>)
        ELSE IF pushed = None THEN Outcome(st, "TooManyItems", <<>>)
        ELSE Outcome([st EXCEPT !.ShadowItems[who] = unwrap(pushed),
                                !.ItemCount[who] = node_increment(@)],
                     "Ok",
                     <<[event |-> "ShadowItemStored", account |-> who, id |-> id,
                        cid |-> cid, source |-> source]>>)

\* A search that passes over tombstoned entries.
node_find_live(items, item_id) ==
    LET hits == {i \in 1..Len(items) : items[i].id = item_id /\ ~items[i].deleted}
    IN  IF hits = {} THEN 0 ELSE CHOOSE i \in hits : \A j \in hits : i <= j

\* items.iter_mut().find(|i| i.id == item_id): the first index, 0 when there is none.
node_find(items, item_id) ==
    LET hits == {i \in 1..Len(items) : items[i].id = item_id}
    IN  IF hits = {} THEN 0 ELSE CHOOSE i \in hits : \A j \in hits : i <= j

\* A delete that drops the entry instead of marking it.
node_mark_deleted_remove(items, i) ==
    [j \in 1..Len(items) - 1 |-> IF j < i THEN items[j] ELSE items[j + 1]]

\* A delete that flips the flag, so that a second delete brings the entry back.
node_mark_deleted_toggle(items, i) == [items EXCEPT ![i].deleted = ~@]

\* item.deleted = true
node_mark_deleted(items, i) == [items EXCEPT ![i].deleted = TRUE]

\* A delete that tells an id held by another account from an id held by nobody.
node_delete_shadow_item_leaky(st, who, item_id) ==
    LET i == node_find(st.ShadowItems[who], item_id)
        elsewhere == \E b \in Accounts \ {who} : node_find(st.ShadowItems[b], item_id) # 0
    IN  IF i = 0 /\ elsewhere THEN Outcome(st, "NotItemOwner", <<>>)
        ELSE IF i = 0 THEN Outcome(st, "ItemNotFound", <<>>)
        ELSE Outcome([st EXCEPT !.ShadowItems[who] = node_mark_deleted(@, i)], "Ok",
                     <<[event |-> "ShadowItemDeleted", account |-> who, id |-> item_id]>>)

node_delete_shadow_item(st, who, item_id) ==
    LET i == node_find(st.ShadowItems[who], item_id)
    IN  IF i = 0 THEN Outcome(st, "ItemNotFound", <<>>)
        ELSE Outcome([st EXCEPT !.ShadowItems[who] = node_mark_deleted(@, i)], "Ok",
                     <<[event |-> "ShadowItemDeleted", account |-> who, id |-> item_id]>>)

\* A grant that writes the record under every account.
node_grant_consent_for_all(st, who, message_hash, expires_in) ==
    LET expires_at == IF expires_in = None THEN None
                      ELSE Some(saturating_add(Time_now, unwrap(expires_in)))
    IN  Outcome([st EXCEPT !.ConsentRecords =
                     [a \in Accounts |->
                        Some([granted_at |-> Time_now, expires_at |-> expires_at,
                              message_hash |-> message_hash])]],
                "Ok",
                <<[event |-> "ConsentGranted", account |-> who,
                   message_hash |-> message_hash, expires_at |-> expires_at]>>)

node_grant_consent(st, who, message_hash, expires_in) ==
    LET expires_at == IF expires_in = None THEN None
                      ELSE Some(saturating_add(Time_now, unwrap(expires_in)))
    IN  Outcome([st EXCEPT !.ConsentRecords[who] =
                     Some([granted_at |-> Time_now, expires_at |-> expires_at,
                           message_hash |-> message_hash])],
                "Ok",
                <<[event |-> "ConsentGranted", account |-> who,
                   message_hash |-> message_hash, expires_at |-> expires_at]>>)

\* A revoke that reports the missing record after clearing the caller's ledger.
node_revoke_consent_partial(st, who) ==
    IF st.ConsentRecords[who] = None
    THEN Outcome([st EXCEPT !.ShadowItems[who] = <<>>], "ConsentNotFound", <<>>)
    ELSE Outcome([st EXCEPT !.ConsentRecords[who] = None], "Ok",
                 <<[event |-> "ConsentRevoked", account |-> who]>>)

node_revoke_consent(st, who) ==
    IF st.ConsentRecords[who] = None THEN Outcome(st, "ConsentNotFound", <<>>)
    ELSE Outcome([st EXCEPT !.ConsentRecords[who] = None], "Ok",
                 <<[event |-> "ConsentRevoked", account |-> who]>>)

\* has_valid_consent (a helper no dispatchable calls)
has_valid_consent(st, account) ==
    IF st.ConsentRecords[account] # None
    THEN LET consent == unwrap(st.ConsentRecords[account]) IN
         IF consent.expires_at # None THEN Time_now <= unwrap(consent.expires_at)
         ELSE TRUE
    ELSE FALSE

\* A listing that returns the tombstones too.
get_active_items_unfiltered(st, account) == st.ShadowItems[account]

\* get_active_items
get_active_items(st, account) ==
    SelectSeq(st.ShadowItems[account], LAMBDA item : ~item.deleted)

(* ------------------------------ actions -------------------------------- *)

\* The ids stored in any ledger, and one stored nowhere: what delete is called with.
ItemIdInputs ==
    UNION {{ShadowItems[a][i].id : i \in 1..Len(ShadowItems[a])} : a \in Accounts}
        \cup {fake_id}

\* A dispatchable ran to its end: storage, result and events are what it produced.
Dispatch(name, who, out) ==
    /\ call' = name
    /\ caller' = who
    /\ result' = out.result
    /\ events' = out.events
    /\ ShadowItems' = out.st.ShadowItems
    /\ ConsentRecords' = out.st.ConsentRecords
    /\ ItemCount' = out.st.ItemCount
    /\ nsteps' = IF out.result = "Ok" THEN nsteps + 1 ELSE nsteps
    /\ nsteps' <= MaxSteps
    /\ UNCHANGED <<pallet, now, account_nonce>>

\* The history of grants: who ever called grant_consent, and the time and duration
\* of each account's grant that is still in force.
GrantHistory(who, out, duration) ==
    /\ grant_called' = grant_called \cup {who}
    /\ last_grant' = IF out.result = "Ok"
                     THEN [last_grant EXCEPT ![who] = Some([at |-> now, duration |-> duration])]
                     ELSE last_grant

RevokeHistory(who, out) ==
    /\ grant_called' = grant_called
    /\ last_grant' = IF out.result = "Ok" THEN [last_grant EXCEPT ![who] = None]
                     ELSE last_grant

ParaSubmit ==
    /\ pallet = "parachain"
    /\ \E who \in Accounts :
       \E cid \in CidOf(who), encrypted_key \in KeyOf(who),
          source \in SourceOf(who), metadata \in MetadataOf(who) :
          Dispatch("submit_shadow_item", who,
                   para_submit_shadow_item(Storage, who, cid, encrypted_key, source, metadata))
    /\ UNCHANGED <<grant_called, last_grant>>

ParaDelete ==
    /\ pallet = "parachain"
    /\ \E who \in Accounts, item_id \in ItemIdInputs :
          Dispatch("delete_shadow_item", who, para_delete_shadow_item(Storage, who, item_id))
    /\ UNCHANGED <<grant_called, last_grant>>

ParaGrant ==
    /\ pallet = "parachain"
    /\ \E who \in Accounts :
       \E message_hash \in MessageHashOf(who), duration \in DurationOf(who),
          overflow_checks \in BOOLEAN :
          LET out == para_grant_consent(Storage, who, message_hash, duration, overflow_checks) IN
          /\ Dispatch("grant_consent", who, out)
          /\ GrantHistory(who, out, duration)

ParaRevoke ==
    /\ pallet = "parachain"
    /\ \E who \in Accounts :
          LET out == para_revoke_consent(Storage, who) IN
          /\ Dispatch("revoke_consent", who, out)
          /\ RevokeHistory(who, out)

NodeSubmit ==
    /\ pallet = "substrate-node"
    /\ \E who \in Accounts :
       \E cid \in CidOf(who), encrypted_key \in KeyOf(who),
          source \in ContentSourceOf(who), metadata \in MetadataOf(who) :
          Dispatch("submit_shadow_item", who,
                   node_submit_shadow_item(Storage, who, cid, encrypted_key, source, metadata))
    /\ UNCHANGED <<grant_called, last_grant>>

NodeDelete ==
    /\ pallet = "substrate-node"
    /\ \E who \in Accounts, item_id \in ItemIdInputs :
          Dispatch("delete_shadow_item", who, node_delete_shadow_item(Storage, who, item_id))
    /\ UNCHANGED <<grant_called, last_grant>>

NodeGrant ==
    /\ pallet = "substrate-node"
    /\ \E who \in Accounts :
       \E message_hash \in HashInputs, expires_in \in DurationOf(who) :
          LET out == node_grant_consent(Storage, who, message_hash, expires_in) IN
          /\ Dispatch("grant_consent", who, out)
          /\ GrantHistory(who, out, expires_in)

NodeRevoke ==
    /\ pallet = "substrate-node"
    /\ \E who \in Accounts :
          LET out == node_revoke_consent(Storage, who) IN
          /\ Dispatch("revoke_consent", who, out)
          /\ RevokeHistory(who, out)

\* The runtime moves logical time on (System::set_block_number, Timestamp::set_timestamp).
Tick ==
    /\ now < MaxBlockNumber
    /\ now' = now + 1
    /\ call' = "set_block_number"
    /\ caller' = 0
    /\ result' = "Ok"
    /\ events' = <<>>
    /\ nsteps < MaxSteps
    /\ nsteps' = nsteps + 1
    /\ UNCHANGED <<pallet, account_nonce, ShadowItems, ConsentRecords,
                   ItemCount, grant_called, last_grant>>

\* frame_system moves an account's nonce on, once per signed transaction; the pallet
\* never does.  Calls dispatched directly or batched in one transaction see one nonce.
IncNonce ==
    /\ pallet = "parachain"
    /\ \E who \in Accounts :
          /\ account_nonce[who] < MaxNonce
          /\ account_nonce' = [account_nonce EXCEPT ![who] = @ + 1]
          /\ caller' = who
    /\ call' = "inc_account_nonce"
    /\ result' = "Ok"
    /\ events' = <<>>
    /\ nsteps < MaxSteps
    /\ nsteps' = nsteps + 1
    /\ UNCHANGED <<pallet, now, ShadowItems, ConsentRecords, ItemCount,
                   grant_called, last_grant>>

\* new_test_ext: empty storage, block number 1.
Init ==
    /\ pallet \in {"parachain", "substrate-node"}
    /\ now = 1
    /\ account_nonce = [a \in Accounts |-> 0]
    /\ ShadowItems = [a \in Accounts |-> <<>>]
    /\ ConsentRecords = [a \in Accounts |-> None]
    /\ ItemCount = [a \in Accounts |-> 0]
    /\ call = "new_test_ext"
    /\ caller = 0
    /\ result = "Ok"
    /\ events = <<>>
    /\ grant_called = {}
    /\ nsteps = 0
    /\ last_grant = [a \in Accounts |-> None]

Next ==
    \/ ParaSubmit
    \/ ParaDelete
    \/ ParaGrant
    \/ ParaRevoke
    \/ NodeSubmit
    \/ NodeDelete
    \/ NodeGrant
    \/ NodeRevoke
    \/ Tick
    \/ IncNonce

Spec == Init /\ [][Next]_vars

\* The same program over shorter runs: the states from which two commands of two
\* accounts are applied in both orders, and to which the properties stated over
\* every command and every input (C9, C10, C16, C32, C33, C34) apply each call.
PairNext == Next /\ nsteps' <= MaxPairSteps

PairSpec == Init /\ [][PairNext]_vars

(* ------------------------------- claims -------------------------------- *)

\* The dispatchables of the pallet that runs.
ValidSources == IF pallet = "parachain" THEN {0, 1} ELSE ContentSource
AllSources == IF pallet = "parachain" THEN SourceInputs ELSE ContentSource
AllHashes == IF pallet = "parachain" THEN MessageHashInputs ELSE HashInputs

submit_item(st, who, cid, encrypted_key, source, metadata) ==
    IF pallet = "parachain"
    THEN para_submit_shadow_item(st, who, cid, encrypted_key, source, metadata)
    ELSE node_submit_shadow_item(st, who, cid, encrypted_key, source, metadata)

delete_item(st, who, item_id) ==
    IF pallet = "parachain" THEN para_delete_shadow_item(st, who, item_id)
    ELSE node_delete_shadow_item(st, who, item_id)

revoke_consent(st, who) ==
    IF pallet = "parachain" THEN para_revoke_consent(st, who)
    ELSE node_revoke_consent(st, who)

\* The outcomes of grant_consent: one in substrate-node, one per build in parachain.
grant_consent(st, who, message_hash, duration) ==
    IF pallet = "parachain"
    THEN {para_grant_consent(st, who, message_hash, duration, oc) : oc \in BOOLEAN}
    ELSE {node_grant_consent(st, who, message_hash, duration)}

\* The account has a consent record, and it has no expiry or one not yet passed.
ConsentLive(a) ==
    /\ ConsentRecords[a] # None
    /\ \/ unwrap(ConsentRecords[a]).expires_at = None
       \/ now <= unwrap(unwrap(ConsentRecords[a]).expires_at)

ValidInputs(cid, encrypted_key, source, metadata) ==
    /\ Len(cid) <= MaxCidLength
    /\ Len(encrypted_key) <= MaxKeyLength
    /\ Len(metadata) <= MaxMetadataLength
    /\ source \in ValidSources

InLedger(a, item_id) == \E i \in 1..Len(ShadowItems[a]) : ShadowItems[a][i].id = item_id

Submitted == call = "submit_shadow_item"
Deleted == call = "delete_shadow_item"

\* The step is this call of submit_item, of delete_item.
SubmitStep(a, cid, encrypted_key, source, metadata) ==
    Dispatch("submit_shadow_item", a, submit_item(Storage, a, cid, encrypted_key, source, metadata))

DeleteStep(a, item_id) ==
    Dispatch("delete_shadow_item", a, delete_item(Storage, a, item_id))

\* C1: a submit_item that succeeded was made by an account that has a consent
\* record, without expiry or with now <= expires_at (submit changes neither the
\* record nor the time, so this is read off the state the call left).
C1_SubmitOnlyUnderConsent ==
    (Submitted /\ result = "Ok") => ConsentLive(caller)

\* C2: every account's ledger, tombstones included, holds at most
\* MaxItemsPerAccount entries.
C2_LedgerBounded ==
    \A a \in Accounts : Len(ShadowItems[a]) <= MaxItemsPerAccount

\* C2 witness: a submit_item was refused on a ledger that holds exactly the bound.
C2_Witness_FullLedgerRefused ==
    /\ Submitted /\ result = "TooManyItems"
    /\ Len(ShadowItems[caller]) = MaxItemsPerAccount

\* C3: a submit_item by an account that never called grant_consent fails with
\* NoConsent and leaves that account's ledger length as it was.
C3_NeverGrantedNoConsent ==
    [][(call' = "submit_shadow_item" /\ caller' \notin grant_called) =>
          /\ result' = "NoConsent"
          /\ Len(ShadowItems'[caller']) = Len(ShadowItems[caller'])]_vars

\* C4 (parachain): while the grant made at T with duration d is the account's live
\* grant, a submit_item with valid inputs on a ledger with room succeeds at every
\* now with T <= now <= T + d and fails with ConsentExpired at every now > T + d.
C4_ConsentWindow ==
    [][pallet = "parachain" =>
       \A a \in Accounts :
       \A cid \in CidInputs, k \in KeyInputs, src \in AllSources, m \in MetadataInputs :
          ( /\ last_grant[a] # None
            /\ unwrap(last_grant[a]).duration # None
            /\ ValidInputs(cid, k, src, m)
            /\ Len(ShadowItems[a]) < MaxItemsPerAccount
            /\ SubmitStep(a, cid, k, src, m) ) =>
          LET T == unwrap(last_grant[a]).at
              d == unwrap(unwrap(last_grant[a]).duration)
          IN  /\ (T <= now /\ now <= T + d) => result' = "Ok"
              /\ now > T + d => result' = "ConsentExpired"]_vars

\* C5: the entries of one account's ledger have pairwise distinct ids.
C5_DistinctIds ==
    \A a \in Accounts :
    \A i, j \in 1..Len(ShadowItems[a]) :
        i # j => ShadowItems[a][i].id # ShadowItems[a][j].id

\* C6: delete_item with an id that no entry of the caller's own ledger has (an id
\* stored nowhere, or only in another account's ledger) fails with ItemNotFound,
\* changes no ledger, counter or consent record and emits no event.
C6_DeleteUnknownFails ==
    [][\A a \in Accounts, item_id \in ItemIdInputs :
          (~InLedger(a, item_id) /\ DeleteStep(a, item_id)) =>
          /\ result' = "ItemNotFound"
          /\ UNCHANGED <<ShadowItems, ItemCount, account_nonce, ConsentRecords>>
          /\ events' = <<>>]_vars

C8_CapacityExact ==
    \A a \in Accounts :
    \A cid \in CidInputs, k \in KeyInputs, src \in AllSources, m \in MetadataInputs :
        (ConsentLive(a) /\ ValidInputs(cid, k, src, m)) =>
        LET out == submit_item(Storage, a, cid, k, src, m) IN
        IF Len(ShadowItems[a]) < MaxItemsPerAccount
        THEN /\ out.result = "Ok"
             /\ Len(out.st.ShadowItems[a]) = Len(ShadowItems[a]) + 1
        ELSE /\ out.result = "TooManyItems"
             /\ out.st.ShadowItems = ShadowItems
             /\ Len(ShadowItems[a]) = MaxItemsPerAccount

\* C8 witness: under a live consent the ledger was filled and the next submit_item
\* was refused with TooManyItems.
C8_Witness_RefusedAtBound ==
    /\ Submitted /\ result = "TooManyItems"
    /\ ConsentLive(caller)
    /\ Len(ShadowItems[caller]) = MaxItemsPerAccount

\* C9: once the checks before it pass (the consent check in parachain, the fields
\* before it in both), submit_item fails with CidTooLong, KeyTooLong, MetadataTooLong
\* exactly when that field is longer than its bound, so a field of exactly its bound
\* is not refused; a refused call changes no storage and emits nothing.
C9_LengthBounds ==
    \A a \in Accounts :
    \A cid \in CidInputs, k \in KeyInputs, src \in AllSources, m \in MetadataInputs :
        (pallet = "parachain" => ConsentLive(a)) =>
        LET out == submit_item(Storage, a, cid, k, src, m)
            cidOk == Len(cid) <= MaxCidLength
            keyOk == Len(k) <= MaxKeyLength
            metaOk == Len(m) <= MaxMetadataLength
        IN  /\ out.result = "CidTooLong" <=> ~cidOk
            /\ out.result = "KeyTooLong" <=> (cidOk /\ ~keyOk)
            /\ out.result = "MetadataTooLong" <=> (cidOk /\ keyOk /\ ~metaOk)
            /\ out.result \in {"CidTooLong", "KeyTooLong", "MetadataTooLong"} =>
                  (out.st = Storage /\ out.events = <<>>)

\* C9 witness: a submit_item was refused for its key's length by a caller whose
\* ledger holds an entry with every field of exactly its bound.
C9_Witness_RefusedAndAtBound ==
    /\ Submitted /\ result = "KeyTooLong"
    /\ \E i \in 1..Len(ShadowItems[caller]) :
          /\ Len(ShadowItems[caller][i].cid) = MaxCidLength
          /\ Len(ShadowItems[caller][i].encrypted_key) = MaxKeyLength
          /\ Len(ShadowItems[caller][i].metadata) = MaxMetadataLength

\* C10: whichever of the four commands is called, by whom and with what, a call
\* that does not return Ok leaves every ledger, counter and consent record as it
\* was and emits no event.
C10_ErrorsChangeNothing ==
    \A a \in Accounts :
        /\ \A cid \in CidInputs, k \in KeyInputs, src \in AllSources, m \in MetadataInputs :
              LET out == submit_item(Storage, a, cid, k, src, m) IN
              out.result # "Ok" => (out.st = Storage /\ out.events = <<>>)
        /\ \A item_id \in ItemIdInputs :
              LET out == delete_item(Storage, a, item_id) IN
              out.result # "Ok" => (out.st = Storage /\ out.events = <<>>)
        /\ \A h \in AllHashes, d \in DurationInputs :
              \A out \in grant_consent(Storage, a, h, d) :
              out.result # "Ok" => (out.st = Storage /\ out.events = <<>>)
        /\ LET out == revoke_consent(Storage, a) IN
           out.result # "Ok" => (out.st = Storage /\ out.events = <<>>)

\* C10 witness: a command returned an error to a caller who has entries stored.
C10_Witness_ErrorWithState ==
    /\ call \in {"submit_shadow_item", "delete_shadow_item", "grant_consent",
                 "revoke_consent"}
    /\ result \notin {"Ok", "panic"}
    /\ events = <<>>
    /\ ShadowItems[caller] # <<>>

\* The step is this call of revoke_consent, this outcome of grant_consent.
RevokeStep(a) == Dispatch("revoke_consent", a, revoke_consent(Storage, a))

GrantStep(a, out) == Dispatch("grant_consent", a, out)

\* C11: revoke_consent by an account that has no consent record fails with
\* ConsentNotFound, changes no ledger, counter or consent record and emits no event.
C11_RevokeWithoutRecordFails ==
    [][\A a \in Accounts :
          (ConsentRecords[a] = None /\ RevokeStep(a)) =>
          /\ result' = "ConsentNotFound"
          /\ UNCHANGED <<ShadowItems, ItemCount, account_nonce, ConsentRecords>>
          /\ events' = <<>>]_vars

\* C12: a revoke_consent that succeeds leaves the caller without a consent record and
\* without valid consent; and from then on, until that account's next successful
\* grant_consent, every submit_item by it fails with NoConsent.
C12_RevokeEndsConsent ==
    [][/\ \A a \in Accounts :
            (RevokeStep(a) /\ result' = "Ok") =>
            /\ ConsentRecords'[a] = None
            /\ ~has_valid_consent([Storage EXCEPT !.ConsentRecords = ConsentRecords'], a)
       /\ (call' = "submit_shadow_item" /\ caller' \in grant_called
              /\ last_grant[caller'] = None) =>
            result' = "NoConsent"]_vars

\* C13: a grant_consent(message_hash, duration) that succeeds at time now leaves the
\* caller with exactly the record granted_at = now, expires_at = now + duration (none
\* when no duration is given), message_hash as supplied, and deposits one
\* ConsentGranted event, for the caller.
C13_GrantStoresRecord ==
    [][\A a \in Accounts, h \in AllHashes, d \in DurationInputs :
       \A out \in grant_consent(Storage, a, h, d) :
          (GrantStep(a, out) /\ out.result = "Ok") =>
          /\ ConsentRecords'[a] =
                Some([granted_at |-> now,
                      expires_at |-> IF d = None THEN None ELSE Some(now + unwrap(d)),
                      message_hash |-> h])
          /\ Len(events') = 1
          /\ events'[1].event = "ConsentGranted"
          /\ events'[1].message_hash = h
          /\ IF pallet = "parachain" THEN events'[1].who = a
                                     ELSE events'[1].account = a]_vars

\* The account's consent has expired, or the call before this one revoked it.
HadConsent(a) ==
    \/ ConsentRecords[a] # None
    \/ call = "revoke_consent" /\ caller = a /\ result = "Ok" /\ a \in grant_called

\* C14: an account has one consent record or none, and a grant_consent that succeeds
\* replaces it without merging: the record it leaves is the one the same grant leaves
\* on an account without a record; a finite-duration grant over a never-expiring
\* record leaves a record with an expiry; and after a grant made when the account had
\* no live consent (expired or revoked), submit_item with valid inputs on a ledger
\* with room succeeds again.
C14_GrantReplaces ==
    [][\A a \in Accounts, h \in AllHashes, d \in DurationInputs :
       \A out \in grant_consent(Storage, a, h, d) :
          (GrantStep(a, out) /\ out.result = "Ok") =>
          /\ ConsentRecords'[a] # None /\ Len(ConsentRecords'[a]) = 1
          /\ \A fresh \in grant_consent([Storage EXCEPT !.ConsentRecords[a] = None], a, h, d) :
                fresh.result = "Ok" =>
                fresh.st.ConsentRecords[a] = ConsentRecords'[a]
          /\ (ConsentRecords[a] # None /\ unwrap(ConsentRecords[a]).expires_at = None
                 /\ d # None) =>
                unwrap(ConsentRecords'[a]).expires_at # None
          /\ (HadConsent(a) /\ ~ConsentLive(a)
                 /\ Len(ShadowItems[a]) < MaxItemsPerAccount) =>
                \A cid \in CidInputs, k \in KeyInputs, src \in AllSources, m \in MetadataInputs :
                   ValidInputs(cid, k, src, m) =>
                   submit_item(out.st, a, cid, k, src, m).result = "Ok"]_vars

\* C15: while an account's live grant is one made without a duration (not revoked,
\* not replaced), its record has no expiry and the consent check of the pallet
\* succeeds for it, at every time the clock reaches.
C15_NoDurationNeverExpires ==
    \A a \in Accounts :
        (last_grant[a] # None /\ unwrap(last_grant[a]).duration = None) =>
        /\ ConsentRecords[a] # None
        /\ unwrap(ConsentRecords[a]).expires_at = None
        /\ IF pallet = "parachain" THEN ensure_valid_consent(Storage, a) = "Ok"
                                   ELSE has_valid_consent(Storage, a)

\* C15 witness: at the last time the clock reaches, an account whose live grant was
\* made earlier and without a duration submitted under the consent check, with success.
C15_Witness_LateSubmit ==
    /\ pallet = "parachain"
    /\ now = MaxBlockNumber
    /\ Submitted /\ result = "Ok"
    /\ last_grant[caller] # None
    /\ unwrap(last_grant[caller]).duration = None
    /\ unwrap(last_grant[caller]).at < now

\* C16: once the checks before it pass (consent, then the three lengths), submit_item
\* with a source outside {GitHub (0), Twitter (1)} fails with InvalidSource, changes
\* no storage and emits nothing; with either member of the set it is not refused for
\* its source, and succeeds when the ledger has room.
C16_SourceClosedSet ==
    \A a \in Accounts :
    \A cid \in CidInputs, k \in KeyInputs, src \in AllSources, m \in MetadataInputs :
        LET out == submit_item(Storage, a, cid, k, src, m) IN
        /\ out.result = "InvalidSource" => src \notin ValidSources
        /\ ((pallet = "parachain" => ConsentLive(a))
               /\ Len(cid) <= MaxCidLength
               /\ Len(k) <= MaxKeyLength
               /\ Len(m) <= MaxMetadataLength) =>
            IF src \in ValidSources
            THEN Len(ShadowItems[a]) < MaxItemsPerAccount => out.result = "Ok"
            ELSE out.result = "InvalidSource" /\ out.st = Storage /\ out.events = <<>>

\* C16 witness: a submit_item was refused with InvalidSource for a caller whose ledger
\* holds one entry of each valid source.
C16_Witness_RefusedAndBothStored ==
    /\ Submitted /\ result = "InvalidSource"
    /\ \A src \in ValidSources :
          \E i \in 1..Len(ShadowItems[caller]) : ShadowItems[caller][i].source = src

\* The positions of the entries of a ledger that are not tombstoned.
ActiveIndices(items) == {i \in 1..Len(items) : ~items[i].deleted}

\* C17 (substrate-node): get_active_items(account) is the ledger's entries with
\* deleted = false and no others, each once, in the order they have in the ledger; it
\* is a function of the storage it reads, so two calls without a command between
\* them return the same sequence.
C17_ActiveItemsFilter ==
    pallet = "substrate-node" =>
    \A a \in Accounts :
        LET items == ShadowItems[a]
            active == get_active_items(Storage, a)
            idx == ActiveIndices(items)
        IN  /\ Len(active) = Cardinality(idx)
            /\ \A i \in idx : active[Cardinality({j \in idx : j <= i})] = items[i]
            /\ \A n \in 1..Len(active) : ~active[n].deleted

\* C17 witness: a ledger with a tombstone in front of a live entry; the listing is
\* the live entry alone.
C17_Witness_TombstoneSkipped ==
    /\ pallet = "substrate-node"
    /\ \E a \in Accounts :
          /\ Len(ShadowItems[a]) >= 2
          /\ ShadowItems[a][1].deleted
          /\ ~ShadowItems[a][2].deleted
          /\ get_active_items(Storage, a)[1] = ShadowItems[a][2]

\* C18: a submit_item that succeeds makes the caller's ledger the old ledger followed
\* by one entry, which carries the submitted cid, encrypted_key, source and metadata,
\* timestamp = now and (where entries have the flag) deleted = false; no other ledger
\* changes; and the one event deposited is ShadowItemStored with that entry's id and cid.
C18_SubmitAppends ==
    \A a \in Accounts :
    \A cid \in CidInputs, k \in KeyInputs, src \in AllSources, m \in MetadataInputs :
        LET out == submit_item(Storage, a, cid, k, src, m)
            after == out.st.ShadowItems[a]
            e == after[Len(after)]
        IN  out.result = "Ok" =>
            /\ Len(after) = Len(ShadowItems[a]) + 1
            /\ SubSeq(after, 1, Len(ShadowItems[a])) = ShadowItems[a]
            /\ e.cid = cid /\ e.encrypted_key = k /\ e.source = src /\ e.metadata = m
            /\ e.timestamp = now
            /\ pallet = "substrate-node" => e.deleted = FALSE
            /\ \A b \in Accounts \ {a} : out.st.ShadowItems[b] = ShadowItems[b]
            /\ Len(out.events) = 1
            /\ out.events[1].event = "ShadowItemStored"
            /\ out.events[1].cid = e.cid
            /\ IF pallet = "parachain" THEN out.events[1].item_id = e.id
                                       ELSE out.events[1].id = e.id

\* C18 witness: a submit_item succeeded on a ledger that held an entry with another
\* cid; the new entry is the last one, stamped with the current time.
C18_Witness_AppendedBehind ==
    /\ Submitted /\ result = "Ok"
    /\ Len(ShadowItems[caller]) >= 2
    /\ LET items == ShadowItems[caller] IN
       /\ items[Len(items)].cid = events[1].cid
       /\ items[Len(items)].timestamp = now
       /\ items[1].cid # items[Len(items)].cid

\* A ledger without its entries of this id.
WithoutId(items, item_id) == SelectSeq(items, LAMBDA e : e.id # item_id)

\* C19: delete_item(a, id) gives the same result, the same events and the same change
\* (to a's ledger only) in the state as it is and in the state that differs from it
\* by another account b not holding an entry with that id.
C19_DeleteIgnoresOtherLedgers ==
    \A a \in Accounts, item_id \in ItemIdInputs :
    \A b \in Accounts \ {a} :
        LET other == [Storage EXCEPT !.ShadowItems[b] = WithoutId(@, item_id)]
            here == delete_item(Storage, a, item_id)
            there == delete_item(other, a, item_id)
        IN  /\ here.result = there.result
            /\ here.events = there.events
            /\ here.st.ShadowItems[a] = there.st.ShadowItems[a]
            /\ here.st.ShadowItems[b] = ShadowItems[b]
            /\ there.st.ShadowItems[b] = other.ShadowItems[b]
            /\ here.st.ConsentRecords = ConsentRecords
            /\ there.st.ConsentRecords = ConsentRecords
            /\ here.st.ItemCount = ItemCount /\ there.st.ItemCount = ItemCount

\* C19 witness: a delete_item was refused with ItemNotFound while another account
\* holds an entry, and deleting that entry's id is refused to the caller the same way.
C19_Witness_OtherAccountsId ==
    /\ Deleted /\ result = "ItemNotFound"
    /\ \E b \in Accounts \ {caller} :
          /\ ShadowItems[b] # <<>>
          /\ ~InLedger(caller, ShadowItems[b][1].id)
          /\ delete_item(Storage, caller, ShadowItems[b][1].id).result = result

\* C20 (parachain): delete_shadow_item with an id that is in the caller's ledger
\* leaves the ledger without an entry of that id and one entry shorter, and the
\* event it deposits is ShadowItemDeleted for that account and id.
C20_ParaDeleteRemovesOne ==
    [][pallet = "parachain" =>
       \A a \in Accounts, item_id \in ItemIdInputs :
          (InLedger(a, item_id) /\ DeleteStep(a, item_id)) =>
          /\ result' = "Ok"
          /\ \A i \in 1..Len(ShadowItems'[a]) : ShadowItems'[a][i].id # item_id
          /\ Len(ShadowItems'[a]) = Len(ShadowItems[a]) - 1
          /\ events' = <<[event |-> "ShadowItemDeleted", who |-> a, item_id |-> item_id]>>]_vars

\* The errors the interface documents for each command.
DocumentedErrors(name) ==
    IF name = "submit_shadow_item"
    THEN {"NoConsent", "ConsentExpired", "CidTooLong", "KeyTooLong", "MetadataTooLong",
          "InvalidSource", "TooManyItems"}
    ELSE IF name = "delete_shadow_item" THEN {"ItemNotFound"}
    ELSE IF name = "grant_consent" THEN {"Message hash too long"}
    ELSE IF name = "revoke_consent" THEN {"ConsentNotFound"}
    ELSE {}

\* C21: a command that does not return Ok returns an error of its documented set
\* (submit_item: NoConsent, ConsentExpired, CidTooLong, KeyTooLong, MetadataTooLong,
\* InvalidSource, TooManyItems; delete_item: ItemNotFound; grant_consent: message hash
\* too long; revoke_consent: ConsentNotFound).
C21_DocumentedErrorsOnly ==
    (call \in {"submit_shadow_item", "delete_shadow_item", "grant_consent", "revoke_consent"}
        /\ result # "Ok") =>
    result \in DocumentedErrors(call)

\* C22: grant_consent with a message_hash longer than MaxMessageHashLength fails with
\* the message-hash-too-long error, leaves the consent records as they are and emits
\* nothing; with a message_hash within the bound it succeeds, whatever the duration.
C22_GrantHashBound ==
    [][\A a \in Accounts, h \in AllHashes, d \in DurationInputs :
       \A out \in grant_consent(Storage, a, h, d) :
          GrantStep(a, out) =>
          IF Len(h) > MaxMessageHashLength
          THEN /\ result' = "Message hash too long"
               /\ UNCHANGED ConsentRecords
               /\ events' = <<>>
          ELSE result' = "Ok"]_vars

\* The error the documented order of checks gives a submit_item: consent first, then
\* cid, key, metadata, source, capacity.
FirstError(a, cid, encrypted_key, source, metadata) ==
    IF ConsentRecords[a] = None THEN "NoConsent"
    ELSE IF ~ConsentLive(a) THEN "ConsentExpired"
    ELSE IF Len(cid) > MaxCidLength THEN "CidTooLong"
    ELSE IF Len(encrypted_key) > MaxKeyLength THEN "KeyTooLong"
    ELSE IF Len(metadata) > MaxMetadataLength THEN "MetadataTooLong"
    ELSE IF source \notin ValidSources THEN "InvalidSource"
    ELSE IF Len(ShadowItems[a]) >= MaxItemsPerAccount THEN "TooManyItems"
    ELSE "Ok"

\* C23: a submit_item returns the first error in the order consent (NoConsent,
\* ConsentExpired), CidTooLong, KeyTooLong, MetadataTooLong, InvalidSource,
\* TooManyItems, whichever later checks it violates as well.
C23_ErrorOrder ==
    [][\A a \in Accounts :
       \A cid \in CidInputs, k \in KeyInputs, src \in AllSources, m \in MetadataInputs :
          SubmitStep(a, cid, k, src, m) => result' = FirstError(a, cid, k, src, m)]_vars

\* The counter a pallet derives identifiers from: ItemCount in substrate-node, the
\* frame_system account nonce in parachain.
SequenceCounter(a) == IF pallet = "parachain" THEN account_nonce[a] ELSE ItemCount[a]

Commands == {"submit_shadow_item", "delete_shadow_item", "grant_consent", "revoke_consent"}

\* C24: a command changes an account's sequence counter only by adding exactly one,
\* and does so exactly when it is a successful submit_item of that account; failed
\* submissions, delete_item, grant_consent, revoke_consent and other accounts'
\* commands leave it as it is.
C24_CounterStepsWithSubmit ==
    [][call' \in Commands =>
       \A a \in Accounts :
          SequenceCounter(a)' =
             IF call' = "submit_shadow_item" /\ caller' = a /\ result' = "Ok"
             THEN SequenceCounter(a) + 1
             ELSE SequenceCounter(a)]_vars

\* C25: a delete_item on a ledger that holds MaxItemsPerAccount entries leaves it
\* holding MaxItemsPerAccount entries, and a submit_item that passes every earlier
\* check is still refused with TooManyItems afterwards.
C25_DeleteFreesNoCapacity ==
    [][\A a \in Accounts, item_id \in ItemIdInputs :
          (Len(ShadowItems[a]) = MaxItemsPerAccount /\ DeleteStep(a, item_id)) =>
          /\ Len(ShadowItems'[a]) = MaxItemsPerAccount
          /\ \A cid \in CidInputs, k \in KeyInputs, src \in AllSources, m \in MetadataInputs :
                ((pallet = "parachain" => ConsentLive(a)) /\ ValidInputs(cid, k, src, m)) =>
                submit_item(Storage', a, cid, k, src, m).result = "TooManyItems"]_vars

\* C26: a grant_consent, a revoke_consent and the passing of time (through a
\* consent's expiry or not) leave every ledger, with its entries, their order and
\* their deleted flags, and every sequence counter as they were.
C26_ConsentLeavesItems ==
    [][call' \in {"grant_consent", "revoke_consent", "set_block_number"} =>
       UNCHANGED <<ShadowItems, ItemCount, account_nonce>>]_vars

\* C26 witness: a revoke_consent succeeded, the caller has no record any more, and
\* an item it stored under the consent is in its ledger.
C26_Witness_ItemsOutliveConsent ==
    /\ pallet = "parachain"
    /\ call = "revoke_consent" /\ result = "Ok"
    /\ ConsentRecords[caller] = None
    /\ ShadowItems[caller] # <<>>

\* C27: whatever command an account issues, with whatever inputs and result, the
\* ledger, sequence counter and consent record of every other account b stay as
\* they were.
C27_OtherAccountsUntouched ==
    [][call' \in Commands =>
       \A b \in Accounts \ {caller'} :
          /\ ShadowItems'[b] = ShadowItems[b]
          /\ ItemCount'[b] = ItemCount[b]
          /\ account_nonce'[b] = account_nonce[b]
          /\ ConsentRecords'[b] = ConsentRecords[b]]_vars

\* C27 witness: a command that changed its caller's state has just succeeded while
\* another account holds an item and a consent record.
C27_Witness_BesideAnotherAccount ==
    /\ call \in Commands /\ result = "Ok"
    /\ \E b \in Accounts \ {caller} :
          ShadowItems[b] # <<>> /\ ConsentRecords[b] # None

\* The commands an account may issue in the current state, as values.
CommandsOf(who) ==
    {[name |-> "submit_shadow_item", cid |-> cid, encrypted_key |-> k, source |-> src,
      metadata |-> m] :
        cid \in CidOf(who), k \in KeyOf(who), m \in MetadataOf(who),
        src \in IF pallet = "parachain" THEN SourceOf(who) ELSE ContentSourceOf(who)}
    \cup {[name |-> "delete_shadow_item", item_id |-> item_id] : item_id \in ItemIdInputs}
    \cup {[name |-> "grant_consent", message_hash |-> h, duration |-> d,
           overflow_checks |-> oc] :
            h \in IF pallet = "parachain" THEN MessageHashOf(who) ELSE HashInputs,
            d \in DurationOf(who),
            oc \in IF pallet = "parachain" THEN BOOLEAN ELSE {FALSE}}
    \cup {[name |-> "revoke_consent"]}

\* The outcome of a command on a storage.
Apply(st, who, c) ==
    IF c.name = "submit_shadow_item"
    THEN submit_item(st, who, c.cid, c.encrypted_key, c.source, c.metadata)
    ELSE IF c.name = "delete_shadow_item" THEN delete_item(st, who, c.item_id)
    ELSE IF c.name = "grant_consent"
    THEN IF pallet = "parachain"
         THEN para_grant_consent(st, who, c.message_hash, c.duration, c.overflow_checks)
         ELSE node_grant_consent(st, who, c.message_hash, c.duration)
    ELSE revoke_consent(st, who)

\* C28: for distinct accounts a and b, a command of a followed by a command of b at
\* the same logical time leaves the same storage (ledgers with their ids, counters,
\* consent records) and gives each command the same result and events as the two
\* commands in the other order.
C28_AccountsCommute ==
    \A a, b \in Accounts :
        a < b =>
        \A ca \in CommandsOf(a), cb \in CommandsOf(b) :
            LET a1 == Apply(Storage, a, ca)
                b2 == Apply(a1.st, b, cb)
                b1 == Apply(Storage, b, cb)
                a2 == Apply(b1.st, a, ca)
            IN  /\ b2.st = a2.st
                /\ a1.result = a2.result /\ a1.events = a2.events
                /\ b1.result = b2.result /\ b1.events = b2.events

\* C28 witness: both accounts have submitted with success, in one order or the other,
\* and the first entry of each ledger carries the id of that account's first
\* submission.
C28_Witness_BothSubmitted ==
    /\ Submitted /\ result = "Ok"
    /\ \A a \in Accounts :
          /\ ShadowItems[a] # <<>>
          /\ ShadowItems[a][1].id = hash_of(a, 0, ShadowItems[a][1].cid)

\* C29: a step deposits a ShadowItemDeleted event only for an id that was in the
\* caller's ledger, a ConsentRevoked event only when the caller had a consent record,
\* which the step removed, and a ShadowItemStored event only when the caller's ledger
\* grew by one entry; a command that returns Ok deposits exactly one event, and a
\* command that returns an error deposits none and leaves storage as it was.
C29_EventsMatchEffects ==
    [][call' \in Commands =>
       /\ result' = "Ok" => Len(events') = 1
       /\ result' # "Ok" =>
             /\ events' = <<>>
             /\ UNCHANGED <<ShadowItems, ItemCount, ConsentRecords>>
       /\ \A n \in 1..Len(events') :
             /\ events'[n].event = "ShadowItemDeleted" =>
                   InLedger(caller', IF pallet = "parachain" THEN events'[n].item_id
                                                            ELSE events'[n].id)
             /\ events'[n].event = "ConsentRevoked" =>
                   ConsentRecords[caller'] # None /\ ConsentRecords'[caller'] = None
             /\ events'[n].event = "ShadowItemStored" =>
                   Len(ShadowItems'[caller']) = Len(ShadowItems[caller']) + 1]_vars

\* The set of the entries of a ledger.
Entries(items) == {items[i] : i \in 1..Len(items)}

\* C30: a step leaves every stored entry's id, cid, encrypted_key, timestamp, source
\* and metadata as they were and moves its deleted flag from false to true at most:
\* where entries are tombstoned each position of a ledger keeps its entry, and where
\* they are removed every entry of the ledger after the step, but for the one a
\* submit appends, is an entry of the ledger before it.
C30_EntriesImmutable ==
    [][\A a \in Accounts :
          IF pallet = "substrate-node"
          THEN /\ Len(ShadowItems'[a]) >= Len(ShadowItems[a])
               /\ \A i \in 1..Len(ShadowItems[a]) :
                     /\ [ShadowItems'[a][i] EXCEPT !.deleted = FALSE] =
                           [ShadowItems[a][i] EXCEPT !.deleted = FALSE]
                     /\ ShadowItems[a][i].deleted => ShadowItems'[a][i].deleted
          ELSE \A i \in 1..Len(ShadowItems'[a]) :
                     \/ ShadowItems'[a][i] \in Entries(ShadowItems[a])
                     \/ /\ call' = "submit_shadow_item" /\ caller' = a /\ result' = "Ok"
                        /\ i = Len(ShadowItems'[a])]_vars

\* C30 witness: an entry stored at an earlier time is in its ledger as a tombstone,
\* under the id it was given at insertion.
C30_Witness_OldTombstone ==
    /\ pallet = "substrate-node"
    /\ \E a \in Accounts : \E i \in 1..Len(ShadowItems[a]) :
          /\ ShadowItems[a][i].deleted
          /\ ShadowItems[a][i].timestamp < now
          /\ ShadowItems[a][i].id = hash_of(a, i - 1, ShadowItems[a][i].cid)

\* The ids of a ledger, in its order.
Ids(items) == [i \in 1..Len(items) |-> items[i].id]

IsPrefix(s, t) == Len(s) <= Len(t) /\ SubSeq(t, 1, Len(s)) = s

\* C31: every step leaves the sequence of ids of each account's ledger a prefix of
\* the sequence of ids after it (and so, over any number of steps, no command removes
\* or reorders entries).
C31_LedgerAppendOnly ==
    [][\A a \in Accounts : IsPrefix(Ids(ShadowItems[a]), Ids(ShadowItems'[a]))]_vars

\* The id a submit_item outcome stored: that of the last entry of the caller's ledger.
StoredId(out, a) == out.st.ShadowItems[a][Len(out.st.ShadowItems[a])].id

\* C32: the id a successful submit_item stores is hash_of(caller, the caller's
\* sequence counter before the call, cid): the same for every encrypted_key, source
\* and metadata, at whatever time and whatever the other accounts hold, and another
\* one for every other account, other counter value or other cid.
C32_IdDerivation ==
    \A a \in Accounts :
    \A cid \in CidInputs, k \in KeyInputs, src \in AllSources, m \in MetadataInputs :
        LET out == submit_item(Storage, a, cid, k, src, m) IN
        out.result = "Ok" =>
        /\ StoredId(out, a) = hash_of(a, SequenceCounter(a), cid)
        /\ \A k2 \in KeyInputs, src2 \in AllSources, m2 \in MetadataInputs :
              LET out2 == submit_item(Storage, a, cid, k2, src2, m2) IN
              out2.result = "Ok" => StoredId(out2, a) = StoredId(out, a)
        /\ \A a2 \in Accounts, n2 \in 0..MaxItemsPerAccount, cid2 \in CidInputs :
              <<a2, n2, cid2>> # <<a, SequenceCounter(a), cid>> =>
              hash_of(a2, n2, cid2) # StoredId(out, a)

\* C32 witness: two entries submitted by one account under one counter value and
\* with one cid, but with different sources, carry the same id.
C32_Witness_SameTripleSameId ==
    /\ Submitted /\ result = "Ok"
    /\ \E i, j \in 1..Len(ShadowItems[caller]) :
          /\ ShadowItems[caller][i].id = ShadowItems[caller][j].id
          /\ ShadowItems[caller][i].source # ShadowItems[caller][j].source

\* C33 (substrate-node): ItemCount of every account is the number of entries of its
\* ledger, tombstones included.
C33_ItemCountIsLength ==
    pallet = "substrate-node" =>
    \A a \in Accounts : ItemCount[a] = Len(ShadowItems[a])

\* C33 witness: a full ledger with a tombstone in it, and ItemCount at the bound.
C33_Witness_FullWithTombstone ==
    /\ pallet = "substrate-node"
    /\ \E a \in Accounts :
          /\ ItemCount[a] = MaxItemsPerAccount
          /\ Len(ShadowItems[a]) = MaxItemsPerAccount
          /\ \E i \in 1..Len(ShadowItems[a]) : ShadowItems[a][i].deleted

\* The id is that of a tombstoned entry of the account's ledger.
Tombstoned(a, item_id) ==
    \E i \in 1..Len(ShadowItems[a]) :
        ShadowItems[a][i].id = item_id /\ ShadowItems[a][i].deleted

\* C34 (substrate-node): delete_shadow_item on the id of an entry that is already
\* tombstoned returns Ok, deposits a ShadowItemDeleted event for it and leaves
\* storage as the first delete left it.
C34_DeleteIdempotent ==
    pallet = "substrate-node" =>
    \A a \in Accounts, item_id \in ItemIdInputs :
        Tombstoned(a, item_id) =>
        LET out == node_delete_shadow_item(Storage, a, item_id) IN
        /\ out.result = "Ok"
        /\ out.events = <<[event |-> "ShadowItemDeleted", account |-> a, id |-> item_id]>>
        /\ out.st = Storage

\* C34 witness: three calls have succeeded, at one time, without a grant, and left one
\* entry in all: a submit and two deletes of its id, the second of which returned Ok.
C34_Witness_DeletedTwice ==
    /\ pallet = "substrate-node"
    /\ Deleted /\ result = "Ok"
    /\ Tombstoned(caller, events[1].id)
    /\ Len(ShadowItems[caller]) = 1
    /\ \A b \in Accounts \ {caller} : ShadowItems[b] = <<>>
    /\ grant_called = {} /\ now = 1
    /\ nsteps = 3

\* C35: a stored consent record that has an expiry has expires_at >= granted_at.
C35_ExpiryNotBeforeGrant ==
    \A a \in Accounts :
        (ConsentRecords[a] # None /\ unwrap(ConsentRecords[a]).expires_at # None) =>
        unwrap(unwrap(ConsentRecords[a]).expires_at) >= unwrap(ConsentRecords[a]).granted_at

\* The positions at which two ledgers of one length differ.
Changed(before, after) == {i \in 1..Len(before) : before[i] # after[i]}

\* C36: a delete_item that succeeds changes or removes at most one entry of the
\* caller's ledger, one whose id is the argument, and leaves every other entry, and
\* the order of the entries, as they were.
C36_DeleteTouchesOneEntry ==
    [][\A a \in Accounts, item_id \in ItemIdInputs :
          (DeleteStep(a, item_id) /\ result' = "Ok") =>
          /\ WithoutId(ShadowItems'[a], item_id) = WithoutId(ShadowItems[a], item_id)
          /\ IF Len(ShadowItems'[a]) = Len(ShadowItems[a])
             THEN Cardinality(Changed(ShadowItems[a], ShadowItems'[a])) <= 1
             ELSE Len(ShadowItems'[a]) = Len(ShadowItems[a]) - 1]_vars

\* C37: delete_item with an id that is in the caller's ledger returns Ok whether the
\* caller's consent record is live, expired or absent (revoked or never granted), and
\* no delete_item returns NoConsent or ConsentExpired.
C37_DeleteNeedsNoConsent ==
    [][\A a \in Accounts, item_id \in ItemIdInputs :
          DeleteStep(a, item_id) =>
          /\ result' \notin {"NoConsent", "ConsentExpired"}
          /\ InLedger(a, item_id) => result' = "Ok"]_vars

\* C37 witness: an account whose consent record has expired deleted an entry of its
\* ledger (the tombstone shows the entry was there).
C37_Witness_DeleteAfterExpiry ==
    /\ pallet = "substrate-node"
    /\ Deleted /\ result = "Ok"
    /\ Len(events) = 1 /\ Tombstoned(caller, events[1].id)
    /\ ConsentRecords[caller] # None /\ ~ConsentLive(caller)

\* C38: a step changes an account's consent record only if it is a grant_consent or
\* a revoke_consent of that account; submit_item and delete_item, whatever they
\* return, leave every consent record as it was.
C38_ConsentMapWriters ==
    [][\A a \in Accounts :
          ConsentRecords'[a] # ConsentRecords[a] =>
          (call' \in {"grant_consent", "revoke_consent"} /\ caller' = a)]_vars

\* C38 witness: after a submit_item that succeeded, a delete_item has run, and the
\* caller's consent record is the one it was granted.
C38_Witness_RecordSurvives ==
    /\ pallet = "parachain"
    /\ Deleted /\ result = "Ok"
    /\ Len(ShadowItems[caller]) = 1
    /\ last_grant[caller] # None
    /\ ConsentRecords[caller] # None
    /\ unwrap(ConsentRecords[caller]).granted_at = unwrap(last_grant[caller]).at

\* The account has a consent record whose expiry has passed.
ConsentLapsed(a) == ConsentRecords[a] # None /\ ~ConsentLive(a)

\* C39: a consent record whose expiry has passed stays in storage: the passing of
\* time leaves it, a submit_item of its account fails with ConsentExpired (never
\* NoConsent) and leaves it, and a revoke_consent of its account succeeds and
\* removes it.
C39_ExpiredConsentStays ==
    [][\A a \in Accounts :
          ConsentLapsed(a) =>
          /\ call' = "set_block_number" => ConsentRecords'[a] = ConsentRecords[a]
          /\ (call' = "submit_shadow_item" /\ caller' = a) =>
                (result' = "ConsentExpired" /\ ConsentRecords'[a] = ConsentRecords[a])
          /\ (call' = "revoke_consent" /\ caller' = a) =>
                (result' = "Ok" /\ ConsentRecords'[a] = None)]_vars

====
